---- MODULE Spec2Model ----
(***************************************************************************)
(* Model of the Kong Konnect MCP server's analytics tools: the modular     *)
(* TypeScript implementation (operations/analytics.ts, api.ts, index.ts)   *)
(* and the single-file implementation (mcp-konnect-api.js).                *)
(*                                                                         *)
(* One tool invocation is: build the filters, send one request to the      *)
(* backend, await the reply, aggregate, return a payload.                  *)
(*                                                                         *)
(* Numbers with two decimals (percentages, averages) are integers counted  *)
(* in hundredths: 3333 is 33.33.                                           *)
(***************************************************************************)
EXTENDS Integers, Sequences, FiniteSets

(***************************************************************************)
(* Bounds of the model.                                                    *)
(***************************************************************************)
\* Longest result list the backend returns under SpecAgg.
MaxRecords == 3
\* Longest result list the backend returns under Spec.
MaxSample == 1
\* Longest list of ordered records the backend returns under SpecOrd.
MaxOrdered == 4

(***************************************************************************)
(* JavaScript values.  A number field is an integer, or one of the two     *)
(* non-numbers below; a string field is a string, or UndefinedStr.         *)
(***************************************************************************)
\* `undefined` where a number is expected (an absent numeric field).
Undefined == -1
\* NaN, as parseInt returns for a string that does not start with digits.
NaN == -2
\* `undefined` where a string is expected (an absent string field).
UndefinedStr == "<undefined>"

IsNumber(x) == x # Undefined /\ x # NaN

\* a || b on numbers: undefined, NaN and 0 are falsy.
OrElse(a, b) == IF a # Undefined /\ a # NaN /\ a # 0 THEN a ELSE b
\* a ?? b on numbers: only undefined (and null) are nullish.
Nullish(a, b) == IF a = Undefined THEN b ELSE a
\* a || b on strings: undefined and "" are falsy.
OrElseStr(a, b) == IF a # UndefinedStr /\ a # "" THEN a ELSE b
\* a ?? b on strings.
NullishStr(a, b) == IF a = UndefinedStr THEN b ELSE a

\* Decimal spellings of the integers the model uses, as String(n) writes
\* them and parseInt reads them back.
DecimalStrings ==
    { <<0, "0">>, <<9, "9">>, <<10, "10">>, <<200, "200">>, <<201, "201">>,
      <<404, "404">>, <<500, "500">> }

\* String(x), the conversion a property key undergoes: obj[404] is obj["404"],
\* obj[undefined] is obj["undefined"].
StringOf(x) ==
    IF x = Undefined THEN "undefined"
    ELSE IF x = NaN THEN "NaN"
    ELSE (CHOOSE p \in DecimalStrings : p[1] = x)[2]

\* parseInt(s): the integer a decimal string spells, NaN for any other string.
ParseInt(s) ==
    IF \E p \in DecimalStrings : p[2] = s
    THEN (CHOOSE p \in DecimalStrings : p[2] = s)[1]
    ELSE NaN

\* Whether a property key is an array index (a canonical non-negative
\* integer string): such keys are enumerated first, in ascending order.
IsIndexKey(s) == \E p \in DecimalStrings : p[2] = s

(***************************************************************************)
(* A JavaScript object used as a map: the sequence of its own properties   *)
(* [k, v] in insertion order.                                              *)
(***************************************************************************)
Has(o, k) == \E i \in 1..Len(o) : o[i].k = k

Get(o, k) == o[CHOOSE i \in 1..Len(o) : o[i].k = k].v

PutAppended(o, k, v) == Append(o, [k |-> k, v |-> v])

\* o[k] = v
Put(o, k, v) ==
    IF Has(o, k)
    THEN [i \in 1..Len(o) |-> IF o[i].k = k THEN [k |-> k, v |-> v] ELSE o[i]]
    ELSE Append(o, [k |-> k, v |-> v])

IncrementStuck(o, k) == Put(o, k, IF Has(o, k) THEN Get(o, k) ELSE 1)

\* o[k] = (o[k] || 0) + 1
Increment(o, k) == Put(o, k, (IF Has(o, k) THEN Get(o, k) ELSE 0) + 1)

RECURSIVE InsertByIndex(_, _)
\* e placed into a list of index-keyed properties kept in ascending order.
InsertByIndex(e, s) ==
    IF s = <<>> THEN <<e>>
    ELSE IF ParseInt(e.k) < ParseInt(Head(s).k) THEN <<e>> \o s
    ELSE <<Head(s)>> \o InsertByIndex(e, Tail(s))

RECURSIVE IndexEntries(_)
IndexEntries(o) ==
    IF o = <<>> THEN <<>>
    ELSE IF IsIndexKey(Head(o).k)
         THEN InsertByIndex(Head(o), IndexEntries(Tail(o)))
         ELSE IndexEntries(Tail(o))

EntriesInsertionOrder(o) == o

\* Object.entries(o): the index keys in ascending numeric order, then the
\* other string keys in insertion order.
Entries(o) ==
    IndexEntries(o) \o SelectSeq(o, LAMBDA e : ~IsIndexKey(e.k))

RECURSIVE InsertByCount(_, _)
\* e placed after every element whose count is at least e's.
InsertByCount(e, s) ==
    IF s = <<>> THEN <<e>>
    ELSE IF Head(s).count >= e.count THEN <<Head(s)>> \o InsertByCount(e, Tail(s))
    ELSE <<e>> \o s

RECURSIVE SortByCountDesc(_)
\* list.sort((a, b) => b.count - a.count): a stable sort, count descending.
SortByCountDesc(s) ==
    IF s = <<>> THEN <<>>
    ELSE InsertByCount(s[Len(s)], SortByCountDesc(SubSeq(s, 1, Len(s) - 1)))

ToFixed2Floor(p, q) == (100 * p) \div q

\* parseFloat((p / q).toFixed(2)) for p >= 0, q > 0, in hundredths: the
\* nearest hundredth, a half rounding up.  Used for (count / total) * 100,
\* which is an exact half-hundredth only for totals that are multiples of 32.
ToFixed2(p, q) == (200 * p + q) \div (2 * q)

RECURSIVE Pow2Mod(_, _)
\* 2^k mod q, by squaring
Pow2Mod(k, q) ==
    IF k = 0 THEN 1 % q
    ELSE LET h == Pow2Mod(k \div 2, q)
         IN  (h * h * (IF k % 2 = 1 THEN 2 ELSE 1)) % q

RECURSIVE BinaryExponent(_, _)
\* floor(log2(p / q)) for p > 0, q > 0
BinaryExponent(p, q) ==
    IF p >= 2 * q THEN BinaryExponent(p, 2 * q) + 1
    ELSE IF p < q THEN BinaryExponent(2 * p, q) - 1
    ELSE 0

\* Whether the double p / q (one division of two integers) is less than the
\* quotient: its 53-bit significand is p * 2^k / q rounded to the nearest
\* integer, k = 52 - floor(log2(p / q)), and is rounded down when the
\* remainder of that division is less than q / 2.
DoubleBelow(p, q) ==
    LET k == 52 - BinaryExponent(p, q)
        r == ((p % q) * Pow2Mod(k, q)) % q
    IN  r # 0 /\ 2 * r < q

\* parseFloat((p / q).toFixed(2)) where p / q is one division of integers,
\* p >= 0, q > 0, in hundredths.  toFixed writes the hundredth nearest to the
\* double, the larger of two equally near; the double is nearer to p / q
\* than p / q is to any half-hundredth it is not equal to, so the quotient
\* itself decides, except when it is exactly a half-hundredth: then the
\* side on which the double lies decides.
QuotientToFixed2(p, q) ==
    LET halfUp == (200 * p + q) \div (2 * q)
        tie == (200 * p) % q = 0 /\ ((200 * p) \div q) % 2 = 1
    IN  IF p > 0 /\ tie /\ DoubleBelow(p, q) THEN halfUp - 1 ELSE halfUp

(***************************************************************************)
(* Tool arguments.  An optional argument is None when the caller omits it  *)
(* and Some(v) when the caller passes v.                                   *)
(***************************************************************************)
None == <<>>
Some(v) == <<v>>

\* `list && list.length > 0`
NonEmptyList(opt) == opt # None /\ Len(opt[1]) > 0

\* The tools of the modular server and of the single-file server.
TsQuery == "query_api_requests"
TsConsumer == "get_consumer_requests"
JsQuery == "query-api-requests"
JsFailed == "analyze-failed-requests"
JsConsumer == "get-consumer-requests"
JsService == "get-service-requests"

\* timeRangeSchema's default and pageSizeSchema's default.
DefaultTimeRange == "1H"
DefaultPageSize == 100

\* What a caller may pass for each optional list of query-api-requests.
StatusCodeLists == {None, Some(<<>>), Some(<<200, 201>>)}
ExcludeStatusCodeLists == {None, Some(<<>>), Some(<<500>>)}
HttpMethodLists == {None, Some(<<>>), Some(<<"GET", "POST">>)}
ConsumerIdLists == {None, Some(<<>>), Some(<<"c1">>)}
ServiceIdLists == {None, Some(<<>>), Some(<<"s1">>)}
RouteIdLists == {None, Some(<<>>), Some(<<"r1">>)}

QueryArgs(S, X, M, C, V, R) ==
    [timeRange : {DefaultTimeRange}, statusCodes : S, excludeStatusCodes : X,
     httpMethods : M, consumerIds : C, serviceIds : V, routeIds : R,
     maxResults : {DefaultPageSize}]

\* Every combination of absent, empty and non-empty lists.
AllQueryArgs ==
    QueryArgs(StatusCodeLists, ExcludeStatusCodeLists, HttpMethodLists,
              ConsumerIdLists, ServiceIdLists, RouteIdLists)

\* The call with every optional argument omitted.
DefaultQueryArgs == QueryArgs({None}, {None}, {None}, {None}, {None}, {None})

ConsumerArgs(B) ==
    [consumerId : {"c1"}, timeRange : {DefaultTimeRange}, successOnly : B,
     failureOnly : B, maxResults : {DefaultPageSize}]

ServiceArgs(B) ==
    [serviceId : {"s1"}, timeRange : {DefaultTimeRange}, successOnly : B,
     failureOnly : B, maxResults : {DefaultPageSize}]

FailedArgs(B) ==
    [timeRange : {DefaultTimeRange}, include4xx : B, include5xx : B,
     maxResults : {DefaultPageSize}]

(***************************************************************************)
(* Filters and the backend request.  A filter's value is a JSON array or   *)
(* a JSON scalar.                                                          *)
(***************************************************************************)
List(items) == [isArray |-> TRUE, items |-> items]
Scalar(x) == [isArray |-> FALSE, items |-> <<x>>]

Filter(field, operator, value) ==
    [field |-> field, operator |-> operator, value |-> value]

\* filters.push(f) when cond holds.
PushIf(cond, f) == IF cond THEN <<f>> ELSE <<>>

QueryFiltersSwapped(a) ==
    PushIf(NonEmptyList(a.excludeStatusCodes),
           Filter("status_code", "not_in", List(a.excludeStatusCodes[1])))
    \o PushIf(NonEmptyList(a.statusCodes),
           Filter("status_code", "in", List(a.statusCodes[1])))
    \o PushIf(NonEmptyList(a.httpMethods),
           Filter("http_method", "in", List(a.httpMethods[1])))
    \o PushIf(NonEmptyList(a.consumerIds),
           Filter("consumer", "in", List(a.consumerIds[1])))
    \o PushIf(NonEmptyList(a.serviceIds),
           Filter("gateway_service", "in", List(a.serviceIds[1])))
    \o PushIf(NonEmptyList(a.routeIds),
           Filter("route", "in", List(a.routeIds[1])))

QueryFiltersNoLengthTest(a) ==
    PushIf(a.statusCodes # None,
           Filter("status_code", "in", List(a.statusCodes[1])))
    \o PushIf(NonEmptyList(a.excludeStatusCodes),
           Filter("status_code", "not_in", List(a.excludeStatusCodes[1])))
    \o PushIf(NonEmptyList(a.httpMethods),
           Filter("http_method", "in", List(a.httpMethods[1])))
    \o PushIf(NonEmptyList(a.consumerIds),
           Filter("consumer", "in", List(a.consumerIds[1])))
    \o PushIf(NonEmptyList(a.serviceIds),
           Filter("gateway_service", "in", List(a.serviceIds[1])))
    \o PushIf(NonEmptyList(a.routeIds),
           Filter("route", "in", List(a.routeIds[1])))

\* queryApiRequests (analytics.ts): the filters array.
QueryFilters(a) ==
    PushIf(NonEmptyList(a.statusCodes),
           Filter("status_code", "in", List(a.statusCodes[1])))
    \o PushIf(NonEmptyList(a.excludeStatusCodes),
           Filter("status_code", "not_in", List(a.excludeStatusCodes[1])))
    \o PushIf(NonEmptyList(a.httpMethods),
           Filter("http_method", "in", List(a.httpMethods[1])))
    \o PushIf(NonEmptyList(a.consumerIds),
           Filter("consumer", "in", List(a.consumerIds[1])))
    \o PushIf(NonEmptyList(a.serviceIds),
           Filter("gateway_service", "in", List(a.serviceIds[1])))
    \o PushIf(NonEmptyList(a.routeIds),
           Filter("route", "in", List(a.routeIds[1])))

\* query-api-requests (mcp-konnect-api.js): the filters array.
JsQueryFilters(a) ==
    PushIf(NonEmptyList(a.statusCodes),
           Filter("status_code", "in", List(a.statusCodes[1])))
    \o PushIf(NonEmptyList(a.excludeStatusCodes),
           Filter("status_code", "not_in", List(a.excludeStatusCodes[1])))
    \o PushIf(NonEmptyList(a.httpMethods),
           Filter("http_method", "in", List(a.httpMethods[1])))
    \o PushIf(NonEmptyList(a.consumerIds),
           Filter("consumer", "in", List(a.consumerIds[1])))
    \o PushIf(NonEmptyList(a.serviceIds),
           Filter("gateway_service", "in", List(a.serviceIds[1])))
    \o PushIf(NonEmptyList(a.routeIds),
           Filter("route", "in", List(a.routeIds[1])))

ConsumerFiltersBothPushed(a) ==
    <<Filter("consumer", "in", List(<<a.consumerId>>))>>
    \o PushIf(a.successOnly, Filter("status_code_grouped", "in", List(<<"2XX">>)))
    \o PushIf(a.failureOnly,
              Filter("status_code_grouped", "in", List(<<"4XX", "5XX">>)))

\* getConsumerRequests (analytics.ts): the filters array.
ConsumerFilters(a) ==
    <<Filter("consumer", "in", List(<<a.consumerId>>))>>
    \o (IF a.successOnly
        THEN <<Filter("status_code_grouped", "in", List(<<"2XX">>))>>
        ELSE IF a.failureOnly
             THEN <<Filter("status_code_grouped", "in", List(<<"4XX", "5XX">>))>>
             ELSE <<>>)

\* get-consumer-requests (mcp-konnect-api.js): the consumer id is passed as
\* it is, not in a list.
JsConsumerFilters(a) ==
    <<Filter("consumer", "in", Scalar(a.consumerId))>>
    \o (IF a.successOnly
        THEN <<Filter("status_code_grouped", "in", List(<<"2XX">>))>>
        ELSE IF a.failureOnly
             THEN <<Filter("status_code_grouped", "in", List(<<"4XX", "5XX">>))>>
             ELSE <<>>)

\* get-service-requests (mcp-konnect-api.js).
JsServiceFilters(a) ==
    <<Filter("gateway_service", "in", List(<<a.serviceId>>))>>
    \o (IF a.successOnly
        THEN <<Filter("status_code_grouped", "in", List(<<"2XX">>))>>
        ELSE IF a.failureOnly
             THEN <<Filter("status_code_grouped", "in", List(<<"4XX", "5XX">>))>>
             ELSE <<>>)

\* analyze-failed-requests (mcp-konnect-api.js): one filter whose value
\* receives "4XX" and "5XX" as the flags say.
JsFailedFilters(a) ==
    <<Filter("status_code_grouped", "in",
             List(PushIf(a.include4xx, "4XX") \o PushIf(a.include5xx, "5XX")))>>

\* The request body of POST /api-requests, as KongApi.queryApiRequests and
\* each single-file tool build it.
ApiRequestsCall(timeRange, filters, maxResults) ==
    [method |-> "POST", endpoint |-> "/api-requests",
     body |-> [time_range |-> [type |-> "relative", time_range |-> timeRange],
               filters |-> filters, size |-> maxResults]]

\* The filters a tool builds from its arguments.
FiltersOf(t, a) ==
    CASE t = TsQuery -> QueryFilters(a)
      [] t = TsConsumer -> ConsumerFilters(a)
      [] t = JsQuery -> JsQueryFilters(a)
      [] t = JsFailed -> JsFailedFilters(a)
      [] t = JsConsumer -> JsConsumerFilters(a)
      [] t = JsService -> JsServiceFilters(a)

(***************************************************************************)
(* Raw records of a backend reply.  Each record differs from BaseRecord in *)
(* its status fields, or in one other field.                               *)
(***************************************************************************)
BaseRecord ==
    [status_code |-> 404, response_http_status |-> Undefined,
     consumer |-> "c1", gateway_service |-> "s1", route |-> "r1",
     http_method |-> "GET", latencies_response_ms |-> 10]

StatusCodeValues == {Undefined, 0, 404}
ResponseStatusValues == {Undefined, 200}

RawRecords ==
    {[BaseRecord EXCEPT !.status_code = sc, !.response_http_status = rs] :
        sc \in StatusCodeValues, rs \in ResponseStatusValues}
    \cup {[BaseRecord EXCEPT !.consumer = UndefinedStr]}
    \cup {[BaseRecord EXCEPT !.gateway_service = v] : v \in {UndefinedStr, ""}}
    \cup {[BaseRecord EXCEPT !.http_method = UndefinedStr]}

\* The records of the replies under Spec.
SampleRecords == {BaseRecord}

SeqsUpTo(S, n) == UNION {[1..k -> S] : k \in 0..n}

\* A reply of POST /api-requests (ApiRequestsResponse).
Reply(size, results) == [meta |-> [size |-> size], results |-> results]

\* Owner ids of a result list with more owners than a top-5 list keeps.
CrowdConsumers == <<"c1", "c2", "c3", "c4", "c5", "c6">>
CrowdServices == <<"s1", "s2", "s3", "s4", "s5", "s6">>

\* A result list whose records all differ in consumer and service; the
\* record at position `absent` (if any) has neither.
Crowd(absent) ==
    [i \in 1..Len(CrowdConsumers) |->
        [BaseRecord EXCEPT
            !.consumer = IF i = absent THEN UndefinedStr ELSE CrowdConsumers[i],
            !.gateway_service =
                IF i = absent THEN UndefinedStr ELSE CrowdServices[i]]]

\* A record of the given status whose consumer, service and route are all
\* named `owner`.
OwnedRecord(status, owner) ==
    [BaseRecord EXCEPT !.status_code = status, !.consumer = owner,
                       !.gateway_service = owner, !.route = owner]

\* The records of the replies under SpecOrd: three status codes, and owners
\* named by letters and by numbers.
OrderedRecords ==
    {OwnedRecord(p[1], p[2]) :
        p \in {<<404, "b">>, <<200, "b">>, <<500, "b">>, <<404, "a">>,
               <<404, "10">>, <<404, "9">>}}

\* Records of owners arriving as b, a, b, a, c.
ArrivalRecords ==
    LET owners == <<"b", "a", "b", "a", "c">>
    IN  [i \in 1..Len(owners) |-> OwnedRecord(404, owners[i])]

\* The crowded list followed by one more record of its owner number `again`.
CrowdAgain(again) == Append(Crowd(0), Crowd(0)[again])

\* n records of which the first k took 1 ms and the others report no latency.
LatencyRecords(n, k) ==
    [i \in 1..n |->
        [BaseRecord EXCEPT !.latencies_response_ms = IF i <= k THEN 1 ELSE Undefined]]

(***************************************************************************)
(* The loops that count into an object, given the key of each record.      *)
(* Each loop is written as its state after every iteration: the object     *)
(* built so far and the records still to come.                             *)
(***************************************************************************)
RECURSIVE CountLoop(_)
CountLoop(st) ==
    IF st.rest = <<>> THEN st.counts
    ELSE CountLoop([counts |-> Increment(st.counts, Head(st.rest)),
                    rest |-> Tail(st.rest)])

\* keys.forEach(k => { counts[k] = (counts[k] || 0) + 1 })
CountKeys(keys) == CountLoop([counts |-> <<>>, rest |-> keys])

RECURSIVE BreakdownLoop(_)
BreakdownLoop(st) ==
    IF st.rest = <<>> THEN st.b
    ELSE LET owner == Head(st.rest)[1]
             status == Head(st.rest)[2]
             old == IF Has(st.b, owner) THEN Get(st.b, owner)
                    ELSE [count |-> 0, statusCodes |-> <<>>]
         IN  BreakdownLoop(
                 [b |-> Put(st.b, owner,
                            [count |-> old.count + 1,
                             statusCodes |-> Increment(old.statusCodes, status)]),
                  rest |-> Tail(st.rest)])

BreakdownFirstStatus(pairs) ==
    BreakdownLoop([b |-> <<>>,
                   rest |-> [i \in 1..Len(pairs) |-> <<pairs[i][1], pairs[1][2]>>]])

\* pairs.forEach(([owner, status]) => {
\*   if (!b[owner]) b[owner] = { count: 0, statusCodes: {} };
\*   b[owner].count++;
\*   b[owner].statusCodes[status] = (b[owner].statusCodes[status] || 0) + 1 })
Breakdown(pairs) == BreakdownLoop([b |-> <<>>, rest |-> pairs])

RECURSIVE GroupLoop(_)
GroupLoop(st) ==
    IF st.keys = <<>> THEN st.g
    ELSE LET key == Head(st.keys)
         IN  GroupLoop(
                 [g |-> Put(st.g, key,
                            Append(IF Has(st.g, key) THEN Get(st.g, key) ELSE <<>>,
                                   Head(st.reqs))),
                  keys |-> Tail(st.keys),
                  reqs |-> Tail(st.reqs)])

\* reqs.forEach(req => { if (!g[key]) g[key] = []; g[key].push(req) })
GroupBy(keys, reqs) == GroupLoop([g |-> <<>>, keys |-> keys, reqs |-> reqs])

RECURSIVE SumSeq(_)
\* s.reduce((sum, x) => sum + x, 0), the two halves added up separately
SumSeq(s) ==
    IF s = <<>> THEN 0
    ELSE IF Len(s) = 1 THEN s[1]
    ELSE LET half == Len(s) \div 2
         IN  SumSeq(SubSeq(s, 1, half)) + SumSeq(SubSeq(s, half + 1, Len(s)))

RECURSIVE UniqueLoop(_)
UniqueLoop(st) ==
    IF st.rest = <<>> THEN st.u
    ELSE UniqueLoop(
             [u |-> IF \E i \in 1..Len(st.u) : st.u[i] = Head(st.rest) THEN st.u
                    ELSE Append(st.u, Head(st.rest)),
              rest |-> Tail(st.rest)])

\* Array.from(new Set(s)): the first occurrence of each value, in order.
Unique(s) == UniqueLoop([u |-> <<>>, rest |-> s])

PercentageTruncated(count, total) == (count * 10000) \div total

\* parseFloat(((count / total) * 100).toFixed(2))
Percentage(count, total) == ToFixed2(count * 100, total)

\* Object.entries(statusCodes).map(([code, count]) =>
\*   ({ statusCode: parseInt(code), count })).sort(by count, descending)
StatusCodeBreakdown(statusCodes) ==
    LET e == Entries(statusCodes)
    IN  SortByCountDesc([i \in 1..Len(e) |->
            [statusCode |-> ParseInt(e[i].k), count |-> e[i].v]])

\* Object.entries(counts).map(([code, count]) => ({ statusCode: parseInt(code),
\*   count, percentage })).sort(by count, descending)
StatusCodeDistribution(counts, total) ==
    LET e == Entries(counts)
    IN  SortByCountDesc([i \in 1..Len(e) |->
            [statusCode |-> ParseInt(e[i].k), count |-> e[i].v,
             percentage |-> Percentage(e[i].v, total)]])

\* Object.entries(breakdown).map(([id, data]) => ({ <id>, count: data.count,
\*   percentage, statusCodeBreakdown })).sort(by count, descending)
OwnerDistribution(breakdown, total) ==
    LET e == Entries(breakdown)
    IN  SortByCountDesc([i \in 1..Len(e) |->
            [id |-> e[i].k, count |-> e[i].v.count,
             percentage |-> Percentage(e[i].v.count, total),
             statusCodeBreakdown |-> StatusCodeBreakdown(e[i].v.statusCodes)]])

(***************************************************************************)
(* The modular server: operations/analytics.ts.                            *)
(***************************************************************************)
\* The entry of the requests listing: statusCode, owner ids and latency.
ListedRequest(req) ==
    [httpMethod |-> req.http_method,
     statusCode |-> OrElse(req.status_code, req.response_http_status),
     consumerId |-> req.consumer, serviceId |-> req.gateway_service,
     routeId |-> req.route, totalMs |-> req.latencies_response_ms]

QueryReportNoAudit(filters, result) ==
    [metadata |-> [totalRequests |-> result.meta.size, filters |-> <<>>],
     requests |-> [i \in 1..Len(result.results) |-> ListedRequest(result.results[i])]]

\* queryApiRequests: the report built from the reply.
QueryReport(filters, result) ==
    [metadata |-> [totalRequests |-> result.meta.size, filters |-> filters],
     requests |-> [i \in 1..Len(result.results) |-> ListedRequest(result.results[i])]]

StatusOfFalsy(req) == OrElse(req.status_code, req.response_http_status)

\* req.status_code ?? req.response_http_status ?? 0
StatusOf(req) == Nullish(Nullish(req.status_code, req.response_http_status), 0)

ServiceOfDropped(req) == req.gateway_service

\* req.gateway_service ?? "unknown"
ServiceOf(req) == NullishStr(req.gateway_service, "unknown")

\* status >= 200 && status < 300 (false for undefined and NaN)
IsSuccess(status) == IsNumber(status) /\ status >= 200 /\ status < 300

ConsumerStatisticsUnguarded(reqs) ==
    LET n == Len(reqs)
        sum == SumSeq([i \in 1..n |-> OrElse(reqs[i].latencies_response_ms, 0)])
        successCount == Cardinality({i \in 1..n : IsSuccess(StatusOf(reqs[i]))})
        statusCodeCounts == CountKeys([i \in 1..n |-> StringOf(StatusOf(reqs[i]))])
        serviceBreakdown ==
            Breakdown([i \in 1..n |->
                <<ServiceOf(reqs[i]), StringOf(StatusOf(reqs[i]))>>])
    IN  [averageLatencyMs |-> IF n > 0 THEN QuotientToFixed2(sum, n) ELSE NaN,
         successRate |-> IF n > 0 THEN ToFixed2(successCount * 100, n) ELSE NaN,
         statusCodeDistribution |-> StatusCodeDistribution(statusCodeCounts, n),
         serviceDistribution |-> OwnerDistribution(serviceBreakdown, n)]

\* getConsumerRequests: the statistics, all zero and empty for no results.
ConsumerStatistics(reqs) ==
    LET n == Len(reqs)
        sum == SumSeq([i \in 1..n |-> OrElse(reqs[i].latencies_response_ms, 0)])
        successCount == Cardinality({i \in 1..n : IsSuccess(StatusOf(reqs[i]))})
        statusCodeCounts == CountKeys([i \in 1..n |-> StringOf(StatusOf(reqs[i]))])
        serviceBreakdown ==
            Breakdown([i \in 1..n |->
                <<ServiceOf(reqs[i]), StringOf(StatusOf(reqs[i]))>>])
    IN  [averageLatencyMs |-> IF n > 0 THEN QuotientToFixed2(sum, n) ELSE 0,
         successRate |-> IF n > 0 THEN ToFixed2(successCount * 100, n) ELSE 0,
         statusCodeDistribution |->
             IF n > 0 THEN StatusCodeDistribution(statusCodeCounts, n) ELSE <<>>,
         serviceDistribution |->
             IF n > 0 THEN OwnerDistribution(serviceBreakdown, n) ELSE <<>>]

\* getConsumerRequests: the report built from the reply.
ConsumerReport(a, result) ==
    [metadata |-> [consumerId |-> a.consumerId,
                   totalRequests |-> Len(result.results),
                   filters |-> [successOnly |-> a.successOnly,
                                failureOnly |-> a.failureOnly]],
     statistics |-> ConsumerStatistics(result.results),
     requests |-> [i \in 1..Len(result.results) |-> ListedRequest(result.results[i])]]

(***************************************************************************)
(* The single-file server: mcp-konnect-api.js.                             *)
(***************************************************************************)
\* query-api-requests: the report built from the reply.
JsQueryReport(filters, result) ==
    [metadata |-> [totalRequests |-> result.meta.size, filters |-> filters],
     requests |-> [i \in 1..Len(result.results) |-> ListedRequest(result.results[i])]]

\* req.status_code || req.response_http_status
JsStatusOf(req) == OrElse(req.status_code, req.response_http_status)

\* req[field] || placeholder
JsOwnerOf(req, field, placeholder) == OrElseStr(req[field], placeholder)

\* The statistics common to get-consumer-requests and get-service-requests.
JsScalarStatistics(reqs) ==
    LET n == Len(reqs)
        sum == SumSeq([i \in 1..n |-> OrElse(reqs[i].latencies_response_ms, 0)])
        successCount == Cardinality({i \in 1..n : IsSuccess(JsStatusOf(reqs[i]))})
    IN  [averageLatencyMs |-> IF n > 0 THEN QuotientToFixed2(sum, n) ELSE 0,
         successRate |-> IF n > 0 THEN ToFixed2(successCount * 100, n) ELSE 0]

\* statusCodeCounts and its distribution.
JsStatusCodeDistribution(reqs) ==
    LET n == Len(reqs)
    IN  IF n > 0
        THEN StatusCodeDistribution(
                 CountKeys([i \in 1..n |-> StringOf(JsStatusOf(reqs[i]))]), n)
        ELSE <<>>

\* serviceBreakdown, consumerBreakdown or routeBreakdown and its distribution.
JsOwnerDistribution(reqs, field, placeholder) ==
    LET n == Len(reqs)
    IN  IF n > 0
        THEN OwnerDistribution(
                 Breakdown([i \in 1..n |->
                     <<JsOwnerOf(reqs[i], field, placeholder),
                       StringOf(JsStatusOf(reqs[i]))>>]), n)
        ELSE <<>>

\* get-consumer-requests: the report built from the reply.
JsConsumerReport(a, result) ==
    LET reqs == result.results
        stats == JsScalarStatistics(reqs)
    IN  [metadata |-> [consumerId |-> a.consumerId, totalRequests |-> Len(reqs),
                       filters |-> [successOnly |-> a.successOnly,
                                    failureOnly |-> a.failureOnly]],
         statistics |->
             [averageLatencyMs |-> stats.averageLatencyMs,
              successRate |-> stats.successRate,
              statusCodeDistribution |-> JsStatusCodeDistribution(reqs),
              serviceDistribution |->
                  JsOwnerDistribution(reqs, "gateway_service", "unknown")],
         requests |-> [i \in 1..Len(reqs) |-> ListedRequest(reqs[i])]]

\* get-service-requests: the report built from the reply.
JsServiceReport(a, result) ==
    LET reqs == result.results
        stats == JsScalarStatistics(reqs)
    IN  [metadata |-> [serviceId |-> a.serviceId, totalRequests |-> Len(reqs),
                       filters |-> [successOnly |-> a.successOnly,
                                    failureOnly |-> a.failureOnly]],
         statistics |->
             [averageLatencyMs |-> stats.averageLatencyMs,
              successRate |-> stats.successRate,
              statusCodeDistribution |-> JsStatusCodeDistribution(reqs),
              consumerDistribution |->
                  JsOwnerDistribution(reqs, "consumer", "anonymous"),
              routeDistribution |-> JsOwnerDistribution(reqs, "route", "unknown")],
         requests |-> [i \in 1..Len(reqs) |-> ListedRequest(reqs[i])]]

\* .slice(0, 5) of byConsumer and byService; .slice(0, 10) of recentFailures.
TopGroups == 5
RecentFailures == 10

\* s.slice(0, n)
Slice(s, n) == SubSeq(s, 1, IF Len(s) < n THEN Len(s) ELSE n)

\* analyze-failed-requests: byStatusCode.
JsByStatusCode(failures) ==
    LET n == Len(failures)
        e == Entries(GroupBy([i \in 1..n |-> StringOf(JsStatusOf(failures[i]))],
                             failures))
    IN  SortByCountDesc([i \in 1..Len(e) |->
            [statusCode |-> ParseInt(e[i].k), count |-> Len(e[i].v),
             percentage |-> Percentage(Len(e[i].v), n)]])

JsByOwnerCapFirst(failures, field, placeholder) ==
    LET n == Len(failures)
        e == Slice(Entries(GroupBy([i \in 1..n |->
                                       JsOwnerOf(failures[i], field, placeholder)],
                                   failures)), TopGroups)
    IN  SortByCountDesc([i \in 1..Len(e) |->
            [id |-> e[i].k, count |-> Len(e[i].v),
             percentage |-> Percentage(Len(e[i].v), n),
             commonStatusCodes |->
                 Unique([j \in 1..Len(e[i].v) |-> JsStatusOf(e[i].v[j])])]])

\* analyze-failed-requests: byConsumer, byService and byHttpMethod, before
\* any slice.
JsByOwner(failures, field, placeholder) ==
    LET n == Len(failures)
        e == Entries(GroupBy([i \in 1..n |->
                                 JsOwnerOf(failures[i], field, placeholder)],
                             failures))
    IN  SortByCountDesc([i \in 1..Len(e) |->
            [id |-> e[i].k, count |-> Len(e[i].v),
             percentage |-> Percentage(Len(e[i].v), n),
             commonStatusCodes |->
                 Unique([j \in 1..Len(e[i].v) |-> JsStatusOf(e[i].v[j])])]])

\* analyze-failed-requests: the report built from the reply.
JsFailedReport(a, result) ==
    LET failures == result.results
    IN  [metadata |-> [totalFailures |-> Len(failures),
                       filters |-> [include4xx |-> a.include4xx,
                                    include5xx |-> a.include5xx]],
         summary |->
             [byStatusCode |-> JsByStatusCode(failures),
              byConsumer |->
                  Slice(JsByOwner(failures, "consumer", "anonymous"), TopGroups),
              byService |->
                  Slice(JsByOwner(failures, "gateway_service", "unknown"),
                        TopGroups),
              byHttpMethod |-> JsByOwner(failures, "http_method", "unknown")],
         recentFailures |->
             [i \in 1..Len(Slice(failures, RecentFailures)) |->
                 ListedRequest(failures[i])]]

\* The report a tool builds from its arguments, its filters and the reply.
ReportOf(t, a, filters, result) ==
    CASE t = TsQuery -> QueryReport(filters, result)
      [] t = TsConsumer -> ConsumerReport(a, result)
      [] t = JsQuery -> JsQueryReport(filters, result)
      [] t = JsFailed -> JsFailedReport(a, result)
      [] t = JsConsumer -> JsConsumerReport(a, result)
      [] t = JsService -> JsServiceReport(a, result)

(***************************************************************************)
(* One invocation: the handler up to its await, the backend's answer, the  *)
(* handler from its await to its return.  A second invocation, `other`,    *)
(* may run beside it; the two share the API client's configuration only.   *)
(***************************************************************************)
VARIABLES
    pc,        \* "idle", "awaiting" (the backend call is pending), "returned"
    tool,      \* the tool invoked, "" when idle
    args,      \* Some(the arguments), None when idle
    request,   \* the requests sent to the backend, Some(the request) or None
    reply,     \* Some(the reply the backend gave)
    failure,   \* Some(the failure axios rejected with)
    payload,   \* Some(the payload returned to the transport)
    abandoned, \* whether the caller cancelled the invocation
    api,       \* the API client's fields: baseUrl and apiKey
    other      \* the second invocation: its pc, tool, args, request, reply
               \* and payload

vars == <<pc, tool, args, request, reply, failure, payload, abandoned, api, other>>

\* The categories of the errors kongRequest raises.
ErrorKinds == {"API Error", "Network Error", "Request Error"}

\* What the body of an error response may be: an object with a message, an
\* object without one, a string, null, or anything else (no body, a number).
ResponseBodies == {"object with message", "object", "string", "null", "other"}

\* What axios rejects with: error.response (None, or Some(the type of its
\* data)) and whether error.request is set.
Failures ==
    [response : {None} \cup {Some(b) : b \in ResponseBodies}, request : BOOLEAN]

\* kongRequest's catch: the error it throws for failure f, as the category
\* its message starts with and the detail that follows.  typeof null is
\* 'object', so a null body reaches errorData.message, which throws a
\* TypeError out of the catch block.
ErrorThrown(f) ==
    IF f.response # None
    THEN IF f.response[1] = "null"
         THEN [category |-> "TypeError", detail |-> "none"]
         ELSE [category |-> "API Error",
               detail |-> CASE f.response[1] = "object with message" -> "message"
                            [] f.response[1] = "object" -> "JSON"
                            [] f.response[1] = "string" -> "first 200 characters"
                            [] OTHER -> "none"]
    ELSE IF f.request
         THEN [category |-> "Network Error", detail |-> "none"]
         ELSE [category |-> "Request Error", detail |-> "message"]

\* Property names every object inherits: obj[name] is truthy although the
\* loop never stored it.
PrototypeKeys == {"constructor", "__proto__"}

\* The grouping loops `if (!g[key]) g[key] = ...; g[key].count++;
\* g[key].statusCodes[status] = ...` and `g[key].push(req)` throw a TypeError
\* when a key is an inherited property name.
GroupingThrows(reqs, field) ==
    \E i \in 1..Len(reqs) : reqs[i][field] \in PrototypeKeys

\* Whether the aggregation of tool t throws on these records.
AggregationThrows(t, reqs) ==
    CASE t \in {TsConsumer, JsConsumer} -> GroupingThrows(reqs, "gateway_service")
      [] t = JsService ->
             GroupingThrows(reqs, "consumer") \/ GroupingThrows(reqs, "route")
      [] t = JsFailed ->
             \/ GroupingThrows(reqs, "consumer")
             \/ GroupingThrows(reqs, "gateway_service")
             \/ GroupingThrows(reqs, "http_method")
      [] OTHER -> FALSE

\* A reply without `results` or without `meta` (an error body returned with
\* a success status, say).
MalformedReply(missing) ==
    [meta |-> [size |-> 0], results |-> <<>>, missing |-> missing]

IsMalformed(r) == "missing" \in DOMAIN r

\* Whether the tool's code after the await throws: result.results.map and
\* result.meta.time_range throw a TypeError on a missing field.
ReplyThrows(t, r) == IsMalformed(r) \/ AggregationThrows(t, r.results)

\* The TypeError a malformed reply or an inherited key raises.
TypeErrorThrown == [category |-> "TypeError", detail |-> "none"]

SuccessPayload(report) == [isError |-> FALSE, report |-> report]
ErrorPayload(message) == [isError |-> TRUE, message |-> message]

\* new KongApi(options): the default region and the token of the environment.
KongApiFields ==
    [baseUrl |-> "https://us.api.konghq.com/v2", apiKey |-> "token"]

\* An invocation that has not started.
Idle ==
    [pc |-> "idle", tool |-> "", args |-> None, request |-> None,
     reply |-> None, payload |-> None]

Init ==
    /\ pc = "idle"
    /\ tool = ""
    /\ args = None
    /\ request = None
    /\ reply = None
    /\ failure = None
    /\ payload = None
    /\ abandoned = FALSE
    /\ api = KongApiFields
    /\ other = Idle

\* The handler of tool t runs up to its await: it builds the filters and
\* sends POST /api-requests.
Invoke(t, A) ==
    \E a \in A :
        /\ pc = "idle"
        /\ pc' = "awaiting"
        /\ tool' = t
        /\ args' = Some(a)
        /\ request' = Some(ApiRequestsCall(a.timeRange, FiltersOf(t, a), a.maxResults))
        /\ UNCHANGED <<reply, failure, payload, abandoned, api, other>>

\* The tools whose backend call is POST /api-requests.
AnalyticsTools == {TsQuery, TsConsumer, JsQuery, JsFailed, JsConsumer, JsService}

ResumeEscapes(R) ==
    \E r \in R :
        /\ pc = "awaiting"
        /\ tool \in AnalyticsTools
        /\ pc' = "returned"
        /\ reply' = Some(r)
        /\ payload' =
               IF ReplyThrows(tool, r) THEN None
               ELSE Some(SuccessPayload(
                        ReportOf(tool, args[1], request[1].body.filters, r)))
        /\ UNCHANGED <<tool, args, request, failure, abandoned, api, other>>

\* The backend answers and the handler runs from its await to its return:
\* the report in a success payload, or, when the code throws, the handler's
\* catch and its error payload.
Resume(R) ==
    \E r \in R :
        /\ pc = "awaiting"
        /\ tool \in AnalyticsTools
        /\ pc' = "returned"
        /\ reply' = Some(r)
        /\ payload' =
               IF ReplyThrows(tool, r)
               THEN Some(ErrorPayload(TypeErrorThrown))
               ELSE Some(SuccessPayload(
                        ReportOf(tool, args[1], request[1].body.filters, r)))
        /\ UNCHANGED <<tool, args, request, failure, abandoned, api, other>>

FailRetried ==
    \E f \in Failures :
        /\ pc = "awaiting"
        /\ pc' = "returned"
        /\ failure' = Some(f)
        /\ request' = request \o request
        /\ payload' = Some(ErrorPayload(ErrorThrown(f)))
        /\ UNCHANGED <<tool, args, reply, abandoned, api, other>>

\* axios rejects, kongRequest throws and the handler's catch returns the
\* error payload.
Fail ==
    \E f \in Failures :
        /\ pc = "awaiting"
        /\ pc' = "returned"
        /\ failure' = Some(f)
        /\ payload' = Some(ErrorPayload(ErrorThrown(f)))
        /\ UNCHANGED <<tool, args, request, reply, abandoned, api, other>>

\* The transport takes the payload; the next invocation may start.
Finish ==
    /\ pc = "returned"
    /\ pc' = "idle"
    /\ tool' = ""
    /\ args' = None
    /\ request' = None
    /\ reply' = None
    /\ failure' = None
    /\ payload' = None
    /\ abandoned' = FALSE
    /\ UNCHANGED <<api, other>>

\* Replies under Spec: few records, any meta.size.
SampleReplies ==
    {Reply(size, rs) : size \in 0..(MaxSample + 1), rs \in SeqsUpTo(SampleRecords, MaxSample)}

\* Replies with one record, one of whose fields is an inherited property name.
HostileReplies ==
    {Reply(1, <<[BaseRecord EXCEPT ![f] = k]>>) :
        f \in {"consumer", "gateway_service", "route", "http_method"},
        k \in PrototypeKeys}

\* Replies that lack a field.
MalformedReplies == {MalformedReply(missing) : missing \in {"results", "meta"}}

\* Replies under SpecAgg: every list of raw records and the crowded lists,
\* meta.size their number.
RecordReplies ==
    {Reply(Len(rs), rs) : rs \in SeqsUpTo(RawRecords, MaxRecords)}
    \cup {Reply(Len(CrowdConsumers), Crowd(absent)) :
              absent \in 0..Len(CrowdConsumers)}

\* Every combination of arguments, few replies.
Next ==
    \/ Invoke(TsQuery, AllQueryArgs)
    \/ Invoke(TsConsumer, ConsumerArgs(BOOLEAN))
    \/ Invoke(JsQuery, AllQueryArgs)
    \/ Invoke(JsFailed, FailedArgs(BOOLEAN))
    \/ Invoke(JsConsumer, ConsumerArgs(BOOLEAN))
    \/ Invoke(JsService, ServiceArgs(BOOLEAN))
    \/ Resume(SampleReplies)
    \/ Resume(HostileReplies)
    \/ Resume(MalformedReplies)
    \/ Fail
    \/ Finish

Spec == Init /\ [][Next]_vars

\* The default arguments, every list of raw records.
NextAgg ==
    \/ Invoke(TsQuery, DefaultQueryArgs)
    \/ Invoke(TsConsumer, ConsumerArgs({FALSE}))
    \/ Invoke(JsQuery, DefaultQueryArgs)
    \/ Invoke(JsFailed, FailedArgs({TRUE}))
    \/ Invoke(JsConsumer, ConsumerArgs({FALSE}))
    \/ Invoke(JsService, ServiceArgs({FALSE}))
    \/ Resume(RecordReplies)
    \/ Fail
    \/ Finish

SpecAgg == Init /\ [][NextAgg]_vars

\* Replies under SpecOrd: every list of ordered records, the arrival list,
\* the crowded lists and the latency lists.
OrderedReplies ==
    {Reply(Len(rs), rs) : rs \in SeqsUpTo(OrderedRecords, MaxOrdered)}
    \cup {Reply(Len(ArrivalRecords), ArrivalRecords)}
    \cup {Reply(Len(CrowdAgain(again)), CrowdAgain(again)) :
              again \in 1..Len(CrowdConsumers)}
    \cup {Reply(n, LatencyRecords(n, k)) : n \in {3, 40}, k \in 0..3}

\* The tools that aggregate, with their default arguments, on the ordered
\* replies.
NextOrd ==
    \/ Invoke(TsConsumer, ConsumerArgs({FALSE}))
    \/ Invoke(JsFailed, FailedArgs({TRUE}))
    \/ Invoke(JsConsumer, ConsumerArgs({FALSE}))
    \/ Invoke(JsService, ServiceArgs({FALSE}))
    \/ Resume(OrderedReplies)
    \/ Fail
    \/ Finish

SpecOrd == Init /\ [][NextOrd]_vars

(***************************************************************************)
(* The whole modular server: its ten tools, the caller's cancellation and  *)
(* a second invocation running beside the first.                           *)
(***************************************************************************)
\* tools(): the methods of the registered tools, in order.
ToolMethods ==
    << "query_api_requests", "get_consumer_requests", "list_services",
       "list_routes", "list_consumers", "list_plugins", "list_control_planes",
       "get_control_plane", "list_control_plane_group_memberships",
       "check_control_plane_group_membership" >>

\* The tools that read the configuration with a GET.
ListTools == {ToolMethods[i] : i \in 3..Len(ToolMethods)}

UnknownToolMethod == "Unknown tool method"

DispatchWithoutPlugins(method) ==
    CASE method = "query_api_requests" -> "queryApiRequests"
      [] method = "get_consumer_requests" -> "getConsumerRequests"
      [] method = "list_services" -> "listServices"
      [] method = "list_routes" -> "listRoutes"
      [] method = "list_consumers" -> "listConsumers"
      [] method = "list_control_planes" -> "listControlPlanes"
      [] method = "get_control_plane" -> "getControlPlane"
      [] method = "list_control_plane_group_memberships" ->
             "listControlPlaneGroupMemberships"
      [] method = "check_control_plane_group_membership" ->
             "checkControlPlaneGroupMembership"
      [] OTHER -> UnknownToolMethod

\* switch (tool.method): the operation the handler calls, or the default
\* branch.
Dispatch(method) ==
    CASE method = "query_api_requests" -> "queryApiRequests"
      [] method = "get_consumer_requests" -> "getConsumerRequests"
      [] method = "list_services" -> "listServices"
      [] method = "list_routes" -> "listRoutes"
      [] method = "list_consumers" -> "listConsumers"
      [] method = "list_plugins" -> "listPlugins"
      [] method = "list_control_planes" -> "listControlPlanes"
      [] method = "get_control_plane" -> "getControlPlane"
      [] method = "list_control_plane_group_memberships" ->
             "listControlPlaneGroupMemberships"
      [] method = "check_control_plane_group_membership" ->
             "checkControlPlaneGroupMembership"
      [] OTHER -> UnknownToolMethod

\* The arguments of the list tools, every optional argument omitted.
EntityArgs == {[controlPlaneId |-> "cp1", size |-> DefaultPageSize]}
ControlPlanesArgs == {[pageSize |-> 10]}
ControlPlaneArgs == {[controlPlaneId |-> "cp1"]}
MembershipsArgs == {[groupId |-> "g1", pageSize |-> 10]}

\* The path of the endpoint a KongApi method reads (its query string, the
\* page size, is left out).
Endpoint(operation, a) ==
    CASE operation = "listServices" ->
             "/control-planes/" \o a.controlPlaneId \o "/core-entities/services"
      [] operation = "listRoutes" ->
             "/control-planes/" \o a.controlPlaneId \o "/core-entities/routes"
      [] operation = "listConsumers" ->
             "/control-planes/" \o a.controlPlaneId \o "/core-entities/consumers"
      [] operation = "listPlugins" ->
             "/control-planes/" \o a.controlPlaneId \o "/core-entities/plugins"
      [] operation = "listControlPlanes" -> "/control-planes"
      [] operation = "getControlPlane" -> "/control-planes/" \o a.controlPlaneId
      [] operation = "listControlPlaneGroupMemberships" ->
             "/control-planes/" \o a.groupId \o "/group-memberships"
      [] operation = "checkControlPlaneGroupMembership" ->
             "/control-planes/" \o a.controlPlaneId \o "/group-member-status"

KongApiCallDelete(operation, a) ==
    [method |-> "DELETE", endpoint |-> Endpoint(operation, a), body |-> None]

\* this.kongRequest(endpoint): method defaults to GET and no body is sent.
KongApiCall(operation, a) ==
    [method |-> "GET", endpoint |-> Endpoint(operation, a), body |-> None]

\* The key under which an operation returns what it read.
ListingKey(operation) ==
    CASE operation = "listServices" -> "services"
      [] operation = "listRoutes" -> "routes"
      [] operation = "listConsumers" -> "consumers"
      [] operation = "listPlugins" -> "plugins"
      [] operation = "listControlPlanes" -> "controlPlanes"
      [] operation = "getControlPlane" -> "controlPlaneDetails"
      [] operation = "listControlPlaneGroupMemberships" -> "members"
      [] operation = "checkControlPlaneGroupMembership" -> "groupMembership"

\* What a list operation returns: the entities of result.data, renamed,
\* under the operation's key.
ListReport(operation, a, result) ==
    [listing |-> ListingKey(operation), items |-> result.data]

\* A reply to a GET: the entities read.
ListReply(data) == [data |-> data]

ListReplies == {ListReply(d) : d \in SeqsUpTo({"e1", "e2"}, MaxSample)}

\* A reply to a GET without `data`.
MalformedListReplies == {[data |-> <<>>, missing |-> "data"]}

\* The handler of list tool t runs up to its await: the switch picks the
\* operation, which sends its GET; the default branch throws, and the
\* handler's catch returns the error payload.
InvokeList(t, A) ==
    \E a \in A :
        /\ pc = "idle"
        /\ tool' = t
        /\ args' = Some(a)
        /\ IF Dispatch(t) = UnknownToolMethod
           THEN /\ pc' = "returned"
                /\ request' = None
                /\ payload' = Some(ErrorPayload([category |-> UnknownToolMethod,
                                                 detail |-> "none"]))
           ELSE /\ pc' = "awaiting"
                /\ request' = Some(KongApiCall(Dispatch(t), a))
                /\ payload' = payload
        /\ UNCHANGED <<reply, failure, abandoned, api, other>>

\* The backend answers a GET and the operation returns its listing;
\* result.data.map throws a TypeError when the reply has no data.
ResumeList(R) ==
    \E r \in R :
        /\ pc = "awaiting"
        /\ tool \in ListTools
        /\ pc' = "returned"
        /\ reply' = Some(r)
        /\ payload' =
               IF IsMalformed(r)
               THEN Some(ErrorPayload(TypeErrorThrown))
               ELSE Some(SuccessPayload(ListReport(Dispatch(tool), args[1], r)))
        /\ UNCHANGED <<tool, args, request, failure, abandoned, api, other>>

\* The caller cancels the invocation while the backend call is pending.
\* The handler does not read its second argument, which carries the
\* request's abort signal, and kongRequest gives axios no signal: the call
\* stays pending and the handler goes on when it is answered.
Abandon ==
    /\ pc = "awaiting"
    /\ ~abandoned
    /\ abandoned' = TRUE
    /\ UNCHANGED <<pc, tool, args, request, reply, failure, payload, api, other>>

\* The second invocation, of an analytics tool: the same handler, on its own
\* arguments and locals.
OtherInvoke(t, A) ==
    \E a \in A :
        /\ other.pc = "idle"
        /\ other' = [pc |-> "awaiting", tool |-> t, args |-> Some(a),
                     request |-> Some(ApiRequestsCall(a.timeRange, FiltersOf(t, a),
                                                      a.maxResults)),
                     reply |-> None, payload |-> None]
        /\ UNCHANGED <<pc, tool, args, request, reply, failure, payload,
                       abandoned, api>>

OtherResumeShared(R) ==
    \E r \in R :
        /\ other.pc = "awaiting"
        /\ other' =
               [other EXCEPT
                   !.pc = "returned",
                   !.reply = Some(r),
                   !.payload =
                       IF reply # None /\ tool \in AnalyticsTools
                          /\ ~ReplyThrows(other.tool, reply[1])
                       THEN Some(SuccessPayload(
                                ReportOf(other.tool, other.args[1],
                                         other.request[1].body.filters, reply[1])))
                       ELSE Some(SuccessPayload(
                                ReportOf(other.tool, other.args[1],
                                         other.request[1].body.filters, r)))]
        /\ UNCHANGED <<pc, tool, args, request, reply, failure, payload,
                       abandoned, api>>

OtherResume(R) ==
    \E r \in R :
        /\ other.pc = "awaiting"
        /\ other' =
               [other EXCEPT
                   !.pc = "returned",
                   !.reply = Some(r),
                   !.payload =
                       IF ReplyThrows(other.tool, r)
                       THEN Some(ErrorPayload(TypeErrorThrown))
                       ELSE Some(SuccessPayload(
                                ReportOf(other.tool, other.args[1],
                                         other.request[1].body.filters, r)))]
        /\ UNCHANGED <<pc, tool, args, request, reply, failure, payload,
                       abandoned, api>>

OtherFail ==
    \E f \in Failures :
        /\ other.pc = "awaiting"
        /\ other' = [other EXCEPT !.pc = "returned",
                                  !.payload = Some(ErrorPayload(ErrorThrown(f)))]
        /\ UNCHANGED <<pc, tool, args, request, reply, failure, payload,
                       abandoned, api>>

OtherFinish ==
    /\ other.pc = "returned"
    /\ other' = Idle
    /\ UNCHANGED <<pc, tool, args, request, reply, failure, payload,
                   abandoned, api>>

\* Every tool with its default arguments, cancellation, and a second
\* invocation of a consumer tool with any flags.
NextServer ==
    \/ Invoke(TsQuery, DefaultQueryArgs)
    \/ Invoke(TsConsumer, ConsumerArgs({FALSE}))
    \/ Invoke(JsQuery, DefaultQueryArgs)
    \/ Invoke(JsFailed, FailedArgs({TRUE}))
    \/ Invoke(JsConsumer, ConsumerArgs({FALSE}))
    \/ Invoke(JsService, ServiceArgs({FALSE}))
    \/ InvokeList("list_services", EntityArgs)
    \/ InvokeList("list_routes", EntityArgs)
    \/ InvokeList("list_consumers", EntityArgs)
    \/ InvokeList("list_plugins", EntityArgs)
    \/ InvokeList("list_control_planes", ControlPlanesArgs)
    \/ InvokeList("get_control_plane", ControlPlaneArgs)
    \/ InvokeList("list_control_plane_group_memberships", MembershipsArgs)
    \/ InvokeList("check_control_plane_group_membership", ControlPlaneArgs)
    \/ Resume(SampleReplies)
    \/ ResumeList(ListReplies)
    \/ ResumeList(MalformedListReplies)
    \/ Fail
    \/ Abandon
    \/ Finish
    \/ OtherInvoke(TsConsumer, ConsumerArgs(BOOLEAN))
    \/ OtherInvoke(JsConsumer, ConsumerArgs(BOOLEAN))
    \/ OtherResume(SampleReplies)
    \/ OtherFail
    \/ OtherFinish

SpecServer == Init /\ [][NextServer]_vars

(***************************************************************************)
(* Properties.                                                             *)
(***************************************************************************)
\* The filters of the request the current invocation sent.
SentFilters == request[1].body.filters

\* The invocation returned a report; Report is that report and Results the
\* records it was built from.
Reported == pc = "returned" /\ ~payload[1].isError
Report == payload[1].report
Results == reply[1].results

\* The predicates of queryApiRequests in the order of the filter builder's
\* rules, each with the argument it takes its list from.
QueryRules ==
    << [field |-> "status_code", operator |-> "in", arg |-> "statusCodes"],
       [field |-> "status_code", operator |-> "not_in", arg |-> "excludeStatusCodes"],
       [field |-> "http_method", operator |-> "in", arg |-> "httpMethods"],
       [field |-> "consumer", operator |-> "in", arg |-> "consumerIds"],
       [field |-> "gateway_service", operator |-> "in", arg |-> "serviceIds"],
       [field |-> "route", operator |-> "in", arg |-> "routeIds"] >>

\* Filter f is the predicate of rule r, carrying the caller's list.
IsRule(f, r, a) ==
    /\ f.field = QueryRules[r].field
    /\ f.operator = QueryRules[r].operator
    /\ a[QueryRules[r].arg] # None
    /\ f.value = List(a[QueryRules[r].arg][1])

\* C1: the filters of queryApiRequests (both servers) follow the order of
\* the rules: status_code in, status_code not_in, http_method, consumer,
\* gateway_service, route; each predicate occurs at most once and carries
\* the caller's list unchanged.  (The operators are the backend's tokens
\* "in" and "not_in".)
C1_FilterOrder ==
    (pc # "idle" /\ tool \in {TsQuery, JsQuery}) =>
        \E rank \in [1..Len(SentFilters) -> 1..Len(QueryRules)] :
            /\ \A i \in 1..Len(SentFilters) : IsRule(SentFilters[i], rank[i], args[1])
            /\ \A i, j \in 1..Len(SentFilters) : i < j => rank[i] < rank[j]

\* C1's case: a call with all six lists given, and one that skips rules.
C1_Witness ==
    /\ pc = "awaiting" /\ tool = TsQuery
    /\ Len(SentFilters) = Len(QueryRules)

\* a with each empty list replaced by an omitted argument.
WithoutEmptyLists(a) ==
    LET lists == {QueryRules[r].arg : r \in 1..Len(QueryRules)}
    IN  [f \in DOMAIN a |->
            IF f \in lists THEN (IF a[f] = Some(<<>>) THEN None ELSE a[f])
            ELSE a[f]]

\* C2: passing an empty list for an optional argument of queryApiRequests
\* yields the same filters and the same backend request as omitting the
\* argument, and no predicate is emitted for it.
C2_EmptyListAsAbsent ==
    (pc # "idle" /\ tool \in {TsQuery, JsQuery}) =>
        /\ request[1] = ApiRequestsCall(args[1].timeRange,
                            FiltersOf(tool, WithoutEmptyLists(args[1])),
                            args[1].maxResults)
        /\ \A r \in 1..Len(QueryRules) :
               args[1][QueryRules[r].arg] = Some(<<>>) =>
                   ~\E i \in 1..Len(SentFilters) :
                       /\ SentFilters[i].field = QueryRules[r].field
                       /\ SentFilters[i].operator = QueryRules[r].operator

\* C2's case: empty lists passed beside a non-empty one.
C2_Witness ==
    /\ pc = "awaiting" /\ tool = TsQuery
    /\ args[1].statusCodes = Some(<<>>)
    /\ args[1].routeIds = Some(<<>>)
    /\ args[1].httpMethods = Some(<<"GET", "POST">>)
    /\ Len(SentFilters) = 1

\* C3: no filter sent to the backend has a zero-length value list.
C3_NoEmptyValueList ==
    pc # "idle" =>
        \A i \in 1..Len(SentFilters) : Len(SentFilters[i].value.items) > 0

\* C4: in a single-entity lookup the entity predicate comes first; then
\* successOnly appends exactly the 2XX predicate, failureOnly without
\* successOnly exactly the 4XX/5XX predicate, neither flag nothing; with
\* both flags only the success predicate is appended.
C4_SuccessFailureShorthand ==
    (pc # "idle" /\ tool \in {TsConsumer, JsConsumer, JsService}) =>
        LET a == args[1]
            rest == Tail(SentFilters)
        IN  /\ SentFilters[1].field =
                   (IF tool = JsService THEN "gateway_service" ELSE "consumer")
            /\ SentFilters[1].operator = "in"
            /\ a.successOnly =>
                   rest = <<Filter("status_code_grouped", "in", List(<<"2XX">>))>>
            /\ (~a.successOnly /\ a.failureOnly) =>
                   rest = <<Filter("status_code_grouped", "in",
                                   List(<<"4XX", "5XX">>))>>
            /\ (~a.successOnly /\ ~a.failureOnly) => rest = <<>>
            /\ Cardinality({i \in 1..Len(SentFilters) :
                               SentFilters[i].field = "status_code_grouped"}) <= 1

\* C4's case: both flags set.
C4_Witness ==
    /\ pc = "awaiting" /\ tool = TsConsumer
    /\ args[1].successOnly /\ args[1].failureOnly
    /\ Len(SentFilters) = 2

\* The call queryApiRequests({statusCodes: [200, 201]}).
StatusCodesOnly(a) ==
    /\ a.statusCodes = Some(<<200, 201>>)
    /\ a.excludeStatusCodes = None /\ a.httpMethods = None
    /\ a.consumerIds = None /\ a.serviceIds = None /\ a.routeIds = None

\* C5 as stated: the audit field metadata.filters of that call is
\* [{field: "status_code", operator: "IN", value: [200, 201]}].
C5_AuditRoundTripUpperCase ==
    (Reported /\ tool \in {TsQuery, JsQuery} /\ StatusCodesOnly(args[1])) =>
        Report.metadata.filters =
            <<Filter("status_code", "IN", List(<<200, 201>>))>>

\* C5, amended: the audit field metadata.filters of that call is
\* [{field: "status_code", operator: "in", value: [200, 201]}], the operator
\* being the backend's lower-case token.
C5_AuditRoundTrip ==
    (Reported /\ tool \in {TsQuery, JsQuery} /\ StatusCodesOnly(args[1])) =>
        Report.metadata.filters =
            <<Filter("status_code", "in", List(<<200, 201>>))>>

\* C5's case: the call returned its report.
C5_Witness ==
    Reported /\ tool = TsQuery /\ StatusCodesOnly(args[1])

(***************************************************************************)
(* The distributions of a report, by tool.                                 *)
(***************************************************************************)
\* The tools that compute statistics over the records of the reply.
StatisticsTools == {TsConsumer, JsConsumer, JsService, JsFailed}

\* The counts of a distribution's groups.
Counts(d) == [i \in 1..Len(d) |-> d[i].count]

\* The distribution keyed by status code.
StatusDistribution ==
    IF tool = JsFailed THEN Report.summary.byStatusCode
    ELSE Report.statistics.statusCodeDistribution

\* The service distribution and the consumer distribution, <<>> where the
\* tool has none.
ServiceGroups ==
    CASE tool \in {TsConsumer, JsConsumer} -> Report.statistics.serviceDistribution
      [] tool = JsFailed -> Report.summary.byService
      [] OTHER -> <<>>

ConsumerGroups ==
    CASE tool = JsService -> Report.statistics.consumerDistribution
      [] tool = JsFailed -> Report.summary.byConsumer
      [] OTHER -> <<>>

\* The distribution by route or by HTTP method, <<>> where the tool has none.
OtherGroups ==
    CASE tool = JsService -> Report.statistics.routeDistribution
      [] tool = JsFailed -> Report.summary.byHttpMethod
      [] OTHER -> <<>>

\* The per-request listing.
Listing == IF tool = JsFailed THEN Report.recentFailures ELSE Report.requests

\* The status of a record as the specification resolves it: the primary
\* field if present, else the secondary field if present, else 0.
ResolvedStatus(req) ==
    IF req.status_code # Undefined THEN req.status_code
    ELSE IF req.response_http_status # Undefined THEN req.response_http_status
    ELSE 0

\* C6: the statistics count each record under its resolved status (primary
\* field, else secondary field, else 0): the status code distribution has,
\* for each record, a group of that status holding exactly the records that
\* resolve to it, and the success rate counts exactly the records whose
\* resolved status is in [200, 300), so never a record missing both fields.
C6_StatusResolution ==
    (Reported /\ tool \in {TsConsumer, JsConsumer} /\ Len(Results) > 0) =>
        /\ \A i \in 1..Len(Results) :
               \E g \in 1..Len(StatusDistribution) :
                   /\ StatusDistribution[g].statusCode = ResolvedStatus(Results[i])
                   /\ StatusDistribution[g].count =
                          Cardinality({j \in 1..Len(Results) :
                              ResolvedStatus(Results[j]) = ResolvedStatus(Results[i])})
        /\ Report.statistics.successRate =
               Percentage(Cardinality({j \in 1..Len(Results) :
                              /\ ResolvedStatus(Results[j]) >= 200
                              /\ ResolvedStatus(Results[j]) < 300}),
                          Len(Results))

\* C7: every statusCode of a report (in the listing, in the status code
\* distribution, in every nested statusCodeBreakdown) is a number, never
\* undefined or NaN.
C7_StatusCodeIsInteger ==
    Reported =>
        /\ \A i \in 1..Len(Listing) : IsNumber(Listing[i].statusCode)
        /\ tool \in StatisticsTools =>
               \A g \in 1..Len(StatusDistribution) :
                   IsNumber(StatusDistribution[g].statusCode)
        /\ tool \in {TsConsumer, JsConsumer, JsService} =>
               \A d \in {ServiceGroups, ConsumerGroups, OtherGroups} :
                   \A g \in 1..Len(d) :
                       \A b \in 1..Len(d[g].statusCodeBreakdown) :
                           IsNumber(d[g].statusCodeBreakdown[b].statusCode)

\* The number of records whose owner field is absent.
AbsentOwners(field) ==
    Cardinality({i \in 1..Len(Results) : Results[i][field] = UndefinedStr})

\* Distribution d counts the records without the owner field in the group
\* keyed by the placeholder.
InPlaceholderGroup(d, field, placeholder) ==
    AbsentOwners(field) > 0 =>
        \E g \in 1..Len(d) :
            d[g].id = placeholder /\ d[g].count >= AbsentOwners(field)

\* C8: the records without a consumer are counted in the group "anonymous"
\* and the records without a service in the group "unknown"; that group is
\* in the output whenever such a record exists, unless the list is one that
\* keeps the top 5 groups and holds 5 groups.
C8_PlaceholderGroups ==
    (Reported /\ tool \in StatisticsTools) =>
        /\ \/ InPlaceholderGroup(ServiceGroups, "gateway_service", "unknown")
           \/ tool = JsService
           \/ tool = JsFailed /\ Len(ServiceGroups) = TopGroups
        /\ \/ InPlaceholderGroup(ConsumerGroups, "consumer", "anonymous")
           \/ tool \in {TsConsumer, JsConsumer}
           \/ tool = JsFailed /\ Len(ConsumerGroups) = TopGroups

\* C8's case: a record without a service beside one with a service, grouped
\* by getConsumerRequests.
C8_Witness ==
    /\ Reported /\ tool = TsConsumer
    /\ AbsentOwners("gateway_service") = 1
    /\ Len(ServiceGroups) = 2
    /\ \E g \in 1..Len(ServiceGroups) : ServiceGroups[g].id = "unknown"

\* The uncapped distributions of the report, as their lists of counts.
UncappedCounts ==
    CASE tool \in {TsConsumer, JsConsumer} ->
             <<Counts(StatusDistribution), Counts(ServiceGroups)>>
      [] tool = JsService ->
             <<Counts(StatusDistribution), Counts(ConsumerGroups),
               Counts(OtherGroups)>>
      [] tool = JsFailed ->
             <<Counts(StatusDistribution), Counts(OtherGroups)>>

\* C9: for a non-empty record set, the counts of each uncapped distribution
\* (statusCodeDistribution, serviceDistribution, consumerDistribution,
\* routeDistribution, byStatusCode, byHttpMethod) add up to the number of
\* records.
C9_CountsAddUp ==
    (Reported /\ tool \in StatisticsTools /\ Len(Results) > 0) =>
        \A d \in 1..Len(UncappedCounts) :
            SumSeq(UncappedCounts[d]) = Len(Results)

\* C9's case: three records in two consumer groups, two of them sharing a
\* status code.
C9_Witness ==
    /\ Reported /\ tool = JsService
    /\ Len(Results) = MaxRecords
    /\ Len(ConsumerGroups) = 2
    /\ Len(StatusDistribution) = 2

\* Percentage p (in hundredths) is count / total * 100 rounded to the
\* nearest hundredth.
IsRoundedShare(p, count, total) ==
    LET diff == p * total - 10000 * count
    IN  2 * (IF diff < 0 THEN -diff ELSE diff) <= total

\* C10: in every top-level distribution, capped or not, the percentage of a
\* group is its count over the number of records of the whole result set,
\* times 100, rounded to two decimals.
C10_PercentageOfTotal ==
    (Reported /\ tool \in StatisticsTools) =>
        /\ \A g \in 1..Len(StatusDistribution) :
               IsRoundedShare(StatusDistribution[g].percentage,
                              StatusDistribution[g].count, Len(Results))
        /\ \A g \in 1..Len(ServiceGroups) :
               IsRoundedShare(ServiceGroups[g].percentage,
                              ServiceGroups[g].count, Len(Results))
        /\ \A g \in 1..Len(ConsumerGroups) :
               IsRoundedShare(ConsumerGroups[g].percentage,
                              ConsumerGroups[g].count, Len(Results))
        /\ \A g \in 1..Len(OtherGroups) :
               IsRoundedShare(OtherGroups[g].percentage,
                              OtherGroups[g].count, Len(Results))

\* C10's case: six records of six consumers, of which byConsumer keeps five,
\* each at 16.67 percent.
C10_Witness ==
    /\ Reported /\ tool = JsFailed
    /\ Len(Results) = Len(CrowdConsumers)
    /\ Len(ConsumerGroups) = TopGroups
    /\ \A g \in 1..Len(ConsumerGroups) : ConsumerGroups[g].percentage = 1667

\* The percentages of the report's uncapped distributions.
UncappedPercentages ==
    LET Percentages(d) == [i \in 1..Len(d) |-> d[i].percentage]
    IN  CASE tool \in {TsConsumer, JsConsumer} ->
                 <<Percentages(StatusDistribution), Percentages(ServiceGroups)>>
          [] tool = JsService ->
                 <<Percentages(StatusDistribution), Percentages(ConsumerGroups),
                   Percentages(OtherGroups)>>
          [] tool = JsFailed ->
                 <<Percentages(StatusDistribution), Percentages(OtherGroups)>>

\* C11: for a non-empty record set, the percentages of an uncapped
\* distribution with g groups add up to 100.00 within g * 0.005 (in
\* hundredths: twice the difference from 10000 is at most g).
C11_PercentagesAddUp ==
    (Reported /\ tool \in StatisticsTools /\ Len(Results) > 0) =>
        \A d \in 1..Len(UncappedPercentages) :
            LET diff == SumSeq(UncappedPercentages[d]) - 10000
            IN  2 * (IF diff < 0 THEN -diff ELSE diff) <= Len(UncappedPercentages[d])

\* C11's case: three status codes of one record each, 33.33 percent each.
C11_Witness ==
    /\ Reported /\ tool = TsConsumer
    /\ Len(Results) = 3
    /\ UncappedPercentages[1] = <<3333, 3333, 3333>>

\* The scalar statistics of the report; analyze-failed-requests has none.
ScalarStatistics ==
    IF tool = JsFailed THEN <<>>
    ELSE <<Report.statistics.averageLatencyMs, Report.statistics.successRate>>

\* C12: from an empty result list every distribution of the report is
\* empty, averageLatencyMs and successRate are 0, and no division by the
\* number of records was evaluated: no NaN is in the report.
C12_EmptyResultSet ==
    (Reported /\ tool \in StatisticsTools /\ Len(Results) = 0) =>
        /\ StatusDistribution = <<>>
        /\ ServiceGroups = <<>>
        /\ ConsumerGroups = <<>>
        /\ OtherGroups = <<>>
        /\ \A i \in 1..Len(ScalarStatistics) : ScalarStatistics[i] = 0
        /\ Listing = <<>>

\* C12's case: getConsumerRequests on a reply without records.
C12_Witness ==
    /\ Reported /\ tool = TsConsumer
    /\ Len(Results) = 0
    /\ Report.metadata.totalRequests = 0

\* The number of records whose resolved status is a success.
Successes ==
    Cardinality({i \in 1..Len(Results) :
        ResolvedStatus(Results[i]) >= 200 /\ ResolvedStatus(Results[i]) < 300})

\* C13 as stated: the success rate of getConsumerRequests is exactly
\* 100 * successes / records, 0 for no records.
C13_SuccessRateExact ==
    (Reported /\ tool = TsConsumer) =>
        Report.statistics.successRate * Len(Results) = 10000 * Successes

\* C13, amended: the success rate of getConsumerRequests is
\* 100 * successes / records rounded to two decimals, 0 for no records, and
\* lies in [0, 100].
C13_SuccessRate ==
    (Reported /\ tool = TsConsumer) =>
        LET rate == Report.statistics.successRate
        IN  /\ Len(Results) = 0 => rate = 0
            /\ Len(Results) > 0 => IsRoundedShare(rate, Successes, Len(Results))
            /\ rate >= 0 /\ rate <= 10000

\* C13's case: one success among three records, 33.33 percent.
C13_Witness ==
    /\ Reported /\ tool = TsConsumer
    /\ Len(Results) = 3 /\ Successes = 1
    /\ Report.statistics.successRate = 3333

(***************************************************************************)
(* Order of the groups.  Under SpecOrd every record has its status_code    *)
(* and its owner fields, so a record's status is status_code and its owner *)
(* the field's value.                                                      *)
(***************************************************************************)
\* List d of entries with a count and a statusCode is ordered by count
\* descending, equal counts by status code ascending.
ByCountThenCode(d) ==
    \A i, j \in 1..Len(d) :
        i < j => \/ d[i].count > d[j].count
                 \/ d[i].count = d[j].count /\ d[i].statusCode < d[j].statusCode

\* C14: the status code distribution is ordered by count descending, and
\* status codes of equal count by ascending code; the order of the list is
\* thereby fixed by the counts alone, whatever order the records arrived in.
C14_StatusCodeOrder ==
    (Reported /\ tool \in StatisticsTools) => ByCountThenCode(StatusDistribution)

\* C14's case: the statuses 404, 404, 500, 200 give 404 (2, 50.00),
\* 200 (1, 25.00), 500 (1, 25.00).
C14_Witness ==
    /\ Reported /\ tool = TsConsumer
    /\ [i \in 1..Len(Results) |-> Results[i].status_code] = <<404, 404, 500, 200>>
    /\ StatusDistribution =
           << [statusCode |-> 404, count |-> 2, percentage |-> 5000],
              [statusCode |-> 200, count |-> 1, percentage |-> 2500],
              [statusCode |-> 500, count |-> 1, percentage |-> 2500] >>

\* The position of the first record whose field holds id.
FirstSeen(field, id) ==
    CHOOSE k \in 1..Len(Results) :
        /\ Results[k][field] = id
        /\ \A m \in 1..(k - 1) : Results[m][field] # id

\* List d of groups keyed by the owner in `field` is ordered by count
\* descending, equal counts by first appearance of the owner in the records.
ByCountThenArrival(d, field) ==
    \A i, j \in 1..Len(d) :
        i < j => \/ d[i].count > d[j].count
                 \/ /\ d[i].count = d[j].count
                    /\ FirstSeen(field, d[i].id) < FirstSeen(field, d[j].id)

\* C15: a distribution keyed by service, consumer or route is ordered by
\* count descending, and owners of equal count by their first appearance in
\* the records, whatever string names the owner.
C15_OwnerOrder ==
    (Reported /\ tool \in StatisticsTools) =>
        /\ ByCountThenArrival(ServiceGroups, "gateway_service")
        /\ ByCountThenArrival(ConsumerGroups, "consumer")
        /\ tool = JsService => ByCountThenArrival(OtherGroups, "route")

\* The two-level distributions of the report, each with its owner field.
TwoLevel ==
    CASE tool \in {TsConsumer, JsConsumer} ->
             <<[groups |-> ServiceGroups, field |-> "gateway_service"]>>
      [] tool = JsService ->
             <<[groups |-> ConsumerGroups, field |-> "consumer"],
               [groups |-> OtherGroups, field |-> "route"]>>
      [] OTHER -> <<>>

\* The number of records of owner id (in field) with the given status.
RecordsOf(field, id, status) ==
    Cardinality({k \in 1..Len(Results) :
        Results[k][field] = id /\ Results[k].status_code = status})

\* C16: in a two-level distribution the statusCodeBreakdown of a group
\* counts, under each status code, the records of that group with that
\* status and no other record; its counts add up to the group's count; it
\* is ordered by count descending, equal counts by ascending status code.
C16_NestedBreakdown ==
    (Reported /\ tool \in StatisticsTools) =>
        \A t \in 1..Len(TwoLevel) :
            \A g \in 1..Len(TwoLevel[t].groups) :
                LET group == TwoLevel[t].groups[g]
                    nested == group.statusCodeBreakdown
                IN  /\ \A b \in 1..Len(nested) :
                           /\ nested[b].count > 0
                           /\ nested[b].count =
                                  RecordsOf(TwoLevel[t].field, group.id,
                                            nested[b].statusCode)
                    /\ SumSeq(Counts(nested)) = group.count
                    /\ ByCountThenCode(nested)

\* C16's case: two services, one of them with two status codes of which the
\* one that arrived later has more records.
C16_Witness ==
    /\ Reported /\ tool = TsConsumer
    /\ Len(ServiceGroups) = 2
    /\ \E g \in 1..Len(ServiceGroups) :
           /\ Counts(ServiceGroups[g].statusCodeBreakdown) = <<2, 1>>
           /\ ServiceGroups[g].statusCodeBreakdown[1].statusCode = 200
    /\ Results[1].status_code = 404

\* The owners (values of field) of the records.
Owners(field) == {Results[k][field] : k \in 1..Len(Results)}

\* The number of records of owner id.
OwnerCount(field, id) ==
    Cardinality({k \in 1..Len(Results) : Results[k][field] = id})

\* Capped list d is the head of the groups sorted by count: it holds the 5
\* groups (or all, if fewer) in descending order of their true counts, and
\* no owner left out has more records than a group in the list.
IsTopGroups(d, field) ==
    /\ Len(d) = (IF Cardinality(Owners(field)) < TopGroups
                 THEN Cardinality(Owners(field)) ELSE TopGroups)
    /\ \A i \in 1..Len(d) : d[i].count = OwnerCount(field, d[i].id)
    /\ \A i, j \in 1..Len(d) : i < j => d[i].count >= d[j].count
    /\ \A o \in Owners(field) :
           (\A i \in 1..Len(d) : d[i].id # o) =>
               \A i \in 1..Len(d) : d[i].count >= OwnerCount(field, o)

\* C17: byConsumer and byService of analyze-failed-requests are the first 5
\* entries of the sorted list: every omitted group has at most the count of
\* every returned group.
C17_CapAfterSort ==
    (Reported /\ tool = JsFailed) =>
        /\ IsTopGroups(ConsumerGroups, "consumer")
        /\ IsTopGroups(ServiceGroups, "gateway_service")

\* C17's case: six consumers, of which the one that arrived sixth has two
\* records and comes first in byConsumer.
C17_Witness ==
    /\ Reported /\ tool = JsFailed
    /\ Cardinality(Owners("consumer")) = TopGroups + 1
    /\ Len(ConsumerGroups) = TopGroups
    /\ ConsumerGroups[1].id = CrowdConsumers[TopGroups + 1]
    /\ ConsumerGroups[1].count = 2

\* The sum of the latencies, a missing one counting 0.
LatencySum ==
    SumSeq([k \in 1..Len(Results) |->
        IF Results[k].latencies_response_ms = Undefined THEN 0
        ELSE Results[k].latencies_response_ms])

\* C18: for a non-empty record set averageLatencyMs is the sum of the
\* latencies (0 for a missing one) over the number of records, rounded to
\* two decimals, a half rounding away from zero.
C18_AverageLatency ==
    (Reported /\ tool \in {TsConsumer, JsConsumer, JsService} /\ Len(Results) > 0) =>
        Report.statistics.averageLatencyMs =
            (200 * LatencySum + Len(Results)) \div (2 * Len(Results))

(***************************************************************************)
(* Error handling.                                                         *)
(***************************************************************************)
\* C19: an invocation returns exactly one payload, and none before it
\* returns.  The payload is either the complete report without an error
\* flag, when neither the backend call nor the code after it threw, or an
\* error message with the error flag and no report data, when the backend
\* call failed, the reply was malformed or the aggregation threw.
C19_OnePayload ==
    /\ pc # "returned" => payload = None
    /\ pc = "returned" =>
           /\ payload # None
           /\ LET p == payload[1]
                  threw == failure # None \/ ReplyThrows(tool, reply[1])
              IN  IF threw
                  THEN p.isError /\ DOMAIN p = {"isError", "message"}
                  ELSE /\ ~p.isError /\ DOMAIN p = {"isError", "report"}
                       /\ p.report = ReportOf(tool, args[1], SentFilters, reply[1])

\* C19's case: getConsumerRequests returned after its service breakdown
\* threw on a service named like an inherited property.
C19_Witness ==
    /\ pc = "returned" /\ tool = TsConsumer
    /\ reply # None /\ ~IsMalformed(reply[1])
    /\ Len(Results) = 1 /\ Results[1].gateway_service \in PrototypeKeys
    /\ payload[1].isError

\* C20: every failure of kongRequest is reported under exactly one of the
\* three categories: "API Error" when a response is attached, else "Network
\* Error" when the request was sent, else "Request Error".
C20_ErrorTaxonomy ==
    (pc = "returned" /\ failure # None) =>
        /\ payload[1].isError
        /\ payload[1].message.category \in ErrorKinds
        /\ payload[1].message.category =
               (IF failure[1].response # None THEN "API Error"
                ELSE IF failure[1].request THEN "Network Error"
                ELSE "Request Error")

\* The message of error e starts with "API Error (Status N)", N being the
\* status of the response; no other message of kongRequest names a status.
NamesStatus(e) == e.category = "API Error"

\* C21: for a response with a non-success status, whatever the type of its
\* body, the error kongRequest raises names the status code in its message;
\* for a string body the message goes on with the first 200 characters of
\* the body and no more.
C21_StatusInMessage ==
    (pc = "returned" /\ failure # None /\ failure[1].response # None) =>
        /\ payload[1].isError
        /\ NamesStatus(payload[1].message)
        /\ failure[1].response[1] = "string" =>
               payload[1].message.detail = "first 200 characters"

(***************************************************************************)
(* The server as a whole, under SpecServer.                                *)
(***************************************************************************)
\* The report tool t returns when it runs alone on arguments a and is
\* answered r.
Alone(t, a, r) ==
    IF t \in AnalyticsTools THEN ReportOf(t, a, FiltersOf(t, a), r)
    ELSE ListReport(Dispatch(t), a, r)

\* The second invocation returned a report.
OtherReported == other.pc = "returned" /\ ~other.payload[1].isError

\* C22: invocations that overlap around their backend calls do not
\* interfere: the report each returns is the report it would return alone
\* on its own arguments and its own reply, whatever the other invocation is
\* doing; and the API client's fields, the only state they share, still
\* hold what the constructor stored.
C22_NoInterference ==
    /\ Reported => Report = Alone(tool, args[1], reply[1])
    /\ OtherReported =>
           other.payload[1].report = Alone(other.tool, other.args[1], other.reply[1])
    /\ api = KongApiFields

\* C22's case: both invocations have returned reports, of different tools,
\* on different arguments and different replies.
C22_Witness ==
    /\ Reported /\ tool = JsConsumer
    /\ OtherReported /\ other.tool = TsConsumer
    /\ other.args[1].successOnly /\ ~args[1].successOnly
    /\ Len(Results) = 0 /\ Len(other.reply[1].results) = 1

\* Request r only reads: a GET, or the query POSTed to /api-requests.
IsReadOnly(r) ==
    \/ r.method = "GET"
    \/ r.method = "POST" /\ r.endpoint = "/api-requests"

\* C23: every request a tool sends to the backend is a GET or the POST to
\* /api-requests that carries a query: never a PUT, PATCH or DELETE, never
\* a POST to another endpoint.
C23_ReadOnly ==
    /\ \A i \in 1..Len(request) : IsReadOnly(request[i])
    /\ \A i \in 1..Len(other.request) : IsReadOnly(other.request[i])

\* C23's case: a list tool has sent its GET while an analytics tool has
\* sent its query.
C23_Witness ==
    /\ pc = "awaiting" /\ tool = "list_plugins"
    /\ request[1].method = "GET"
    /\ request[1].endpoint = "/control-planes/cp1/core-entities/plugins"
    /\ other.pc = "awaiting"
    /\ other.request[1].method = "POST"

\* C24: within one invocation the backend is called exactly once before a
\* report is returned and at most once before an error is returned.  While
\* the call is pending nothing has been answered or returned, so a report
\* rests on the answer to this invocation's own call; after a failure no
\* second call is made and no reply is used.
C24_OneBackendCall ==
    /\ pc = "idle" => request = None /\ reply = None
    /\ pc = "awaiting" => Len(request) = 1 /\ reply = None /\ payload = None
    /\ pc = "returned" =>
           /\ Len(request) <= 1
           /\ ~payload[1].isError => Len(request) = 1 /\ reply # None
           /\ failure # None => reply = None /\ payload[1].isError

\* C24's case: the one call failed and the error was returned without
\* another call.
C24_Witness ==
    /\ pc = "returned" /\ tool = TsConsumer
    /\ failure # None /\ failure[1].response = None /\ failure[1].request
    /\ Len(request) = 1
    /\ payload[1].isError

\* C25: once the caller has abandoned an invocation whose backend call is
\* pending, the call is abandoned too: no reply is taken or processed and
\* no report is returned.
C25_AbandonedCallStops ==
    abandoned => reply = None /\ ~Reported

(***************************************************************************)
(* The listing against the statistics of one report.                       *)
(***************************************************************************)
\* C26: in a getConsumerRequests report the statusCode of each entry of the
\* requests listing is the status code under which that record was counted
\* in the statistics (status code distribution, success rate, nested
\* breakdown of its service), also for a record whose status_code is 0 or
\* absent, with or without response_http_status.
C26_ListedStatusIsCountedStatus ==
    (Reported /\ tool = TsConsumer) =>
        \A k \in 1..Len(Results) :
            /\ Listing[k].statusCode = StatusOf(Results[k])
            /\ \E g \in 1..Len(StatusDistribution) :
                   StatusDistribution[g].statusCode = Listing[k].statusCode

\* C27: in every report of queryApiRequests and of getConsumerRequests,
\* metadata.totalRequests is the number of entries of the requests listing,
\* which is the number of records of the reply, whatever the reply's
\* meta.size.
C27_TotalIsListingLength ==
    (Reported /\ tool \in {TsQuery, TsConsumer}) =>
        /\ Len(Report.requests) = Len(Results)
        /\ Report.metadata.totalRequests = Len(Report.requests)

\* The keys of list d under field f are pairwise distinct.
DistinctKeys(d, f) ==
    \A i, j \in 1..Len(d) : i # j => d[i][f] # d[j][f]

\* C28: in every two-level distribution each owner occurs once, each
\* group's count is at least 1 and is the sum of the counts of its nested
\* statusCodeBreakdown, and in each nested list every count is at least 1
\* and each status code occurs once.
C28_TwoLevelCounts ==
    (Reported /\ tool \in StatisticsTools) =>
        \A t \in 1..Len(TwoLevel) :
            LET groups == TwoLevel[t].groups
            IN  /\ DistinctKeys(groups, "id")
                /\ \A g \in 1..Len(groups) :
                       LET nested == groups[g].statusCodeBreakdown
                       IN  /\ groups[g].count >= 1
                           /\ SumSeq(Counts(nested)) = groups[g].count
                           /\ \A b \in 1..Len(nested) : nested[b].count >= 1
                           /\ DistinctKeys(nested, "statusCode")

\* C28's case: two services, one of them with two records of different
\* status codes.
C28_Witness ==
    /\ Reported /\ tool = TsConsumer
    /\ Len(Results) = MaxRecords
    /\ Len(ServiceGroups) = 2
    /\ \E g \in 1..Len(ServiceGroups) :
           /\ ServiceGroups[g].count = 2
           /\ Counts(ServiceGroups[g].statusCodeBreakdown) = <<1, 1>>

(***************************************************************************)
(* getConsumerRequests against get-consumer-requests.                      *)
(***************************************************************************)
\* The filters and the report of the implementation the invocation did not
\* run, for the same arguments and the same reply.
TwinFilters ==
    IF tool = TsConsumer THEN JsConsumerFilters(args[1])
    ELSE ConsumerFilters(args[1])
TwinReport ==
    IF tool = TsConsumer THEN JsConsumerReport(args[1], reply[1])
    ELSE ConsumerReport(args[1], reply[1])

\* C29: getConsumerRequests and get-consumer-requests are equivalent: for
\* the same arguments they send the same filter list, and for the same
\* reply they return the same statistics and the same requests listing.
C29_ConsumerRequestsEquivalent ==
    (tool \in {TsConsumer, JsConsumer}) =>
        /\ request # None => SentFilters = TwinFilters
        /\ Reported => /\ Report.statistics = TwinReport.statistics
                       /\ Report.requests = TwinReport.requests

(***************************************************************************)
(* The dispatch of the registered tools, under SpecServer.                 *)
(***************************************************************************)
\* The operation named like the tool method: the method's words in camel
\* case.
OperationNamed ==
    [query_api_requests |-> "queryApiRequests",
     get_consumer_requests |-> "getConsumerRequests",
     list_services |-> "listServices",
     list_routes |-> "listRoutes",
     list_consumers |-> "listConsumers",
     list_plugins |-> "listPlugins",
     list_control_planes |-> "listControlPlanes",
     get_control_plane |-> "getControlPlane",
     list_control_plane_group_memberships |-> "listControlPlaneGroupMemberships",
     check_control_plane_group_membership |-> "checkControlPlaneGroupMembership"]

\* C30: every method of tools() has a case in the handler's switch, and the
\* case calls the operation of the same name; an invocation of a registered
\* tool therefore never returns the "Unknown tool method" error, sends the
\* request of its own operation and reports under that operation's key.
C30_EveryToolDispatched ==
    /\ \A i \in 1..Len(ToolMethods) :
           /\ ToolMethods[i] \in DOMAIN OperationNamed
           /\ Dispatch(ToolMethods[i]) # UnknownToolMethod
           /\ Dispatch(ToolMethods[i]) = OperationNamed[ToolMethods[i]]
    /\ (pc = "returned" /\ payload[1].isError) =>
           payload[1].message.category # UnknownToolMethod
    /\ (pc # "idle" /\ tool \in ListTools) =>
           /\ request # None
           /\ request[1] = KongApiCall(OperationNamed[tool], args[1])
           /\ Reported => Report.listing = ListingKey(OperationNamed[tool])

\* C30's case: list_plugins, the sixth of the ten tools, has returned the
\* plugins it read.
C30_Witness ==
    /\ Reported /\ tool = "list_plugins"
    /\ ToolMethods[6] = tool
    /\ request[1].endpoint = "/control-planes/cp1/core-entities/plugins"
    /\ Report.listing = "plugins"
    /\ Len(Report.items) = MaxSample
====
